---- MODULE Spec2Model ----
(***************************************************************************)
(* Model of vrename.py: the table reconciler (_confront_two_tables,        *)
(* confront_two_tables, pairwise_two_tables), the table parser             *)
(* (parse_old_new_file) and the commands start / move / copy with their    *)
(* exit codes (main, capture_os_error, print_error_and_exit).              *)
(*                                                                         *)
(* A table is a sequence of <<tag, value>> entries.  A line of a table     *)
(* file is represented by the list that line.strip().split(None, 1)        *)
(* returns for it: <<>> for a blank line, <<w>> for a line with a single   *)
(* field, <<tag, path>> otherwise.  The file system is a flat map from     *)
(* paths to the data stored there.                                         *)
(***************************************************************************)
EXTENDS Integers, Sequences, FiniteSets, TLC

\* ---------------------------------------------------------------- bounds
MaxTable == 3        \* longest table handed to the reconciler directly
MaxLines == 2        \* longest table file of an arbitrary session

\* ------------------------------------------------------ program constants
EXIT_SUCCESS == 0
EXIT_FAIL == 1
EXIT_UNEXPECTED_FAIL == 2

\* ----------------------------------------------------------- input alphabets
Tags == {"t1", "t2", "t3"}          \* labels random_tagging may draw
Paths == {"a", "b", "c", "d"}       \* every path of the file system
StartPaths == {"a", "b", "c"}       \* the files the user selects
TableTags == {"t1", "t2"}           \* tags of an arbitrary table
TablePaths == {"a", "b"}            \* paths of an arbitrary table
None == "<None>"
NoFile == "<no file>"

SeqsUpTo(S, n) == UNION {[1..m -> S] : m \in 0..n}

Entries == TableTags \X TablePaths
Tables == SeqsUpTo(Entries, MaxTable)

\* lines of a table file, by the fields split(None, 1) finds in them
Lines == {<<>>} \cup {<<t>> : t \in {"t1"}} \cup Entries
TableFiles == SeqsUpTo(Lines, MaxLines)

InjectiveSeqs(S, n) ==
    {f \in [1..n -> S] : \A i, j \in 1..n : i # j => f[i] # f[j]}

VARIABLES
    left_table, right_table, allow_no_right, fn, ret,   \* reconciler call
    session, old_txt, new_txt,                          \* /tmp/vrename/<name>
    fs,                                                 \* the user's files
    pc, cmd, dry_run, old_new_pairs, k,                 \* running command
    out, errs, calls, exit_code                         \* observable effects

vars == <<left_table, right_table, allow_no_right, fn, ret,
          session, old_txt, new_txt, fs,
          pc, cmd, dry_run, old_new_pairs, k,
          out, errs, calls, exit_code>>

recVars == <<left_table, right_table, allow_no_right, fn, ret>>
progVars == <<session, old_txt, new_txt, fs, pc, cmd, dry_run,
              old_new_pairs, k, out, errs, calls, exit_code>>

\* ------------------------------------------------------------ exceptions
DuplicateTagError(tag, left_values) ==
    [kind |-> "DuplicateTagError", tag |-> tag, left_values |-> left_values]

NoLeftValueError(tag, right_value) ==
    [kind |-> "NoLeftValueError", tag |-> tag, right_value |-> right_value]

MultipleRightValueError(tag, left_value, right_values) ==
    [kind |-> "MultipleRightValueError", tag |-> tag,
     left_value |-> left_value, right_values |-> right_values]

NoRightValueError(tag, left_value) ==
    [kind |-> "NoRightValueError", tag |-> tag, left_value |-> left_value]

Return(value) == [kind |-> "return", value |-> value]

\* ------------------------------------------------------------ OrderedDict
\* d is a sequence of [tag, left, rights] in insertion order.
HasKey(d, tag) == \E n \in 1..Len(d) : d[n].tag = tag

KeyIndex(d, tag) == CHOOSE n \in 1..Len(d) : d[n].tag = tag

\* variant of the first loop that keeps the later left value of a repeated tag
RECURSIVE InsertLeft_KeepLast(_, _, _)
InsertLeft_KeepLast(d, table, n) ==
    IF n > Len(table) THEN Return(d)
    ELSE LET tag == table[n][1]
             left_value == table[n][2]
         IN IF HasKey(d, tag)
            THEN InsertLeft_KeepLast(
                     [d EXCEPT ![KeyIndex(d, tag)].left = left_value],
                     table, n + 1)
            ELSE InsertLeft_KeepLast(
                     Append(d, [tag |-> tag, left |-> left_value,
                                rights |-> <<>>]),
                     table, n + 1)

\* first loop of _confront_two_tables, from left entry n on
RECURSIVE InsertLeft(_, _, _)
InsertLeft(d, table, n) ==
    IF n > Len(table) THEN Return(d)
    ELSE LET tag == table[n][1]
             left_value == table[n][2]
         IN IF HasKey(d, tag)
            THEN DuplicateTagError(tag, <<d[KeyIndex(d, tag)].left, left_value>>)
            ELSE InsertLeft(Append(d, [tag |-> tag, left |-> left_value,
                                       rights |-> <<>>]),
                            table, n + 1)

\* variant of the second loop that drops right entries with an unknown tag
RECURSIVE AppendRight_SkipOrphan(_, _, _)
AppendRight_SkipOrphan(d, table, n) ==
    IF n > Len(table) THEN Return(d)
    ELSE LET tag == table[n][1]
             right_value == table[n][2]
         IN IF ~HasKey(d, tag)
            THEN AppendRight_SkipOrphan(d, table, n + 1)
            ELSE LET m == KeyIndex(d, tag)
                 IN AppendRight_SkipOrphan(
                        [d EXCEPT ![m].rights = Append(@, right_value)],
                        table, n + 1)

\* second loop of _confront_two_tables, from right entry n on
RECURSIVE AppendRight(_, _, _)
AppendRight(d, table, n) ==
    IF n > Len(table) THEN Return(d)
    ELSE LET tag == table[n][1]
             right_value == table[n][2]
         IN IF ~HasKey(d, tag)
            THEN NoLeftValueError(tag, right_value)
            ELSE LET m == KeyIndex(d, tag)
                 IN AppendRight(
                        [d EXCEPT ![m].rights = Append(@, right_value)],
                        table, n + 1)

_confront_two_tables(left, right) ==
    LET built == InsertLeft(<<>>, left, 1)
    IN IF built.kind # "return" THEN built
       ELSE AppendRight(built.value, right, 1)

\* variant of confront_two_tables that omits the sources without destination
confront_two_tables_SkipEmpty(left, right) ==
    LET r == _confront_two_tables(left, right)
        kept == IF r.kind = "return"
                THEN SelectSeq(r.value, LAMBDA e : e.rights # <<>>)
                ELSE <<>>
    IN IF r.kind # "return" THEN r
       ELSE Return([n \in 1..Len(kept) |-> <<kept[n].left, kept[n].rights>>])

confront_two_tables(left, right) ==
    LET r == _confront_two_tables(left, right)
    IN IF r.kind # "return" THEN r
       ELSE Return([n \in 1..Len(r.value) |->
                       <<r.value[n].left, r.value[n].rights>>])

\* variant of the loop that takes the first of several right values
RECURSIVE PairLoop_PickFirst(_, _, _, _)
PairLoop_PickFirst(d, n, allow, pairs) ==
    IF n > Len(d) THEN Return(pairs)
    ELSE LET tag == d[n].tag
             left == d[n].left
             rights == d[n].rights
         IN IF rights = <<>>
            THEN IF allow
                 THEN PairLoop_PickFirst(d, n + 1, allow,
                                         Append(pairs, <<left, None>>))
                 ELSE NoRightValueError(tag, left)
            ELSE PairLoop_PickFirst(d, n + 1, allow,
                                    Append(pairs, <<left, rights[1]>>))

\* variant of the loop that never raises NoRightValueError
RECURSIVE PairLoop_AlwaysAllow(_, _, _, _)
PairLoop_AlwaysAllow(d, n, allow, pairs) ==
    IF n > Len(d) THEN Return(pairs)
    ELSE LET tag == d[n].tag
             left == d[n].left
             rights == d[n].rights
         IN IF Len(rights) > 1
            THEN MultipleRightValueError(tag, left, rights)
            ELSE IF rights = <<>>
            THEN PairLoop_AlwaysAllow(d, n + 1, allow,
                                      Append(pairs, <<left, None>>))
            ELSE PairLoop_AlwaysAllow(d, n + 1, allow,
                                      Append(pairs, <<left, rights[1]>>))

\* loop of pairwise_two_tables over the items of d, from item n on
RECURSIVE PairLoop(_, _, _, _)
PairLoop(d, n, allow, pairs) ==
    IF n > Len(d) THEN Return(pairs)
    ELSE LET tag == d[n].tag
             left == d[n].left
             rights == d[n].rights
         IN IF Len(rights) > 1
            THEN MultipleRightValueError(tag, left, rights)
            ELSE IF rights = <<>>
            THEN IF allow
                 THEN PairLoop(d, n + 1, allow, Append(pairs, <<left, None>>))
                 ELSE NoRightValueError(tag, left)
            ELSE PairLoop(d, n + 1, allow, Append(pairs, <<left, rights[1]>>))

pairwise_two_tables(left, right, allow) ==
    LET r == _confront_two_tables(left, right)
    IN IF r.kind # "return" THEN r
       ELSE PairLoop(r.value, 1, allow, <<>>)

\* ------------------------------------------------- reconciler call harness
ProgIdle ==
    /\ session = FALSE /\ old_txt = <<>> /\ new_txt = <<>>
    /\ fs = [p \in Paths |-> NoFile]
    /\ pc = "shell" /\ cmd = "none" /\ dry_run = FALSE
    /\ old_new_pairs = <<>> /\ k = 1
    /\ out = <<>> /\ errs = <<>> /\ calls = <<>> /\ exit_code = -1

InitRec ==
    /\ left_table \in Tables
    /\ right_table \in Tables
    /\ allow_no_right = TRUE
    /\ fn = "none"
    /\ ret = [kind |-> "none"]
    /\ ProgIdle

Confront ==
    /\ fn = "none"
    /\ fn' = "confront"
    /\ ret' = confront_two_tables(left_table, right_table)
    /\ UNCHANGED <<left_table, right_table, allow_no_right>>
    /\ UNCHANGED progVars

Pairwise(allow) ==
    /\ fn = "none"
    /\ fn' = "pairwise"
    /\ allow_no_right' = allow
    /\ ret' = pairwise_two_tables(left_table, right_table, allow)
    /\ UNCHANGED <<left_table, right_table>>
    /\ UNCHANGED progVars

NextRec ==
    \/ Confront
    \/ \E allow \in BOOLEAN : Pairwise(allow)

SpecRec == InitRec /\ [][NextRec]_vars

\* ------------------------------------------------------------ table parser
ValueError == [kind |-> "ValueError"]
OSError(detail) == [kind |-> "OSError", detail |-> detail]

\* list(_parse_old_new_file(path)): tag, path = line.strip().split(None, 1)
RECURSIVE ParseLines(_, _, _)
ParseLines(lines, n, acc) ==
    IF n > Len(lines) THEN Return(acc)
    ELSE IF Len(lines[n]) # 2 THEN ValueError
    ELSE ParseLines(lines, n + 1, Append(acc, <<lines[n][1], lines[n][2]>>))

parse_old_new_file ==
    IF ~session THEN OSError(<<"open">>)
    ELSE LET old == ParseLines(old_txt, 1, <<>>)
             new == ParseLines(new_txt, 1, <<>>)
         IN IF old.kind # "return" THEN old
            ELSE IF new.kind # "return" THEN new
            ELSE Return(<<old.value, new.value>>)

\* ------------------------------------------------------------- file system
Failed == [ok |-> FALSE]
Done(f) == [ok |-> TRUE, fs |-> f]

os_remove(f, path) ==
    IF f[path] = NoFile THEN Failed
    ELSE Done([f EXCEPT ![path] = NoFile])

\* variant of os_renames without the case of a rename onto the same path
os_renames_NoSamePath(f, old, new) ==
    IF f[old] = NoFile THEN Failed
    ELSE Done([f EXCEPT ![new] = f[old], ![old] = NoFile])

os_renames(f, old, new) ==
    IF f[old] = NoFile THEN Failed
    ELSE IF old = new THEN Done(f)
    ELSE Done([f EXCEPT ![new] = f[old], ![old] = NoFile])

shutil_copyfile(f, src, dst) ==
    IF src = dst \/ f[src] = NoFile THEN Failed
    ELSE Done([f EXCEPT ![dst] = f[src]])

\* ------------------------------------------------------------------ exits
\* variant of print_error_and_exit that ends with the unexpected-error code
print_error_and_exit_Unexpected(message) ==
    /\ errs' = Append(errs, message)
    /\ exit_code' = EXIT_UNEXPECTED_FAIL
    /\ pc' = "exited"

print_error_and_exit(message) ==
    /\ errs' = Append(errs, message)
    /\ exit_code' = EXIT_FAIL
    /\ pc' = "exited"

\* except Exception in main: traceback.print_exc, sys.exit(EXIT_UNEXPECTED_FAIL)
unexpected_exit(exc) ==
    /\ errs' = Append(errs, [text |-> "Traceback", detail |-> exc])
    /\ exit_code' = EXIT_UNEXPECTED_FAIL
    /\ pc' = "exited"

\* the function returns, main returns, the interpreter exits
normal_exit ==
    /\ errs' = errs
    /\ exit_code' = EXIT_SUCCESS
    /\ pc' = "exited"

\* ------------------------------------------------------------------- move
move_syscall(pair) ==
    IF pair[2] = None THEN <<"remove", pair[1]>>
    ELSE <<"renames", pair[1], pair[2]>>

move_process(f, pair) ==
    IF pair[2] = None THEN os_remove(f, pair[1])
    ELSE os_renames(f, pair[1], pair[2])

move_message(pair) ==
    IF pair[2] = None THEN <<"Delete", pair[1]>>
    ELSE <<"Renamed", pair[1], pair[2]>>

MoveBegin(dry) ==
    /\ pc = "shell"
    /\ cmd' = "move"
    /\ dry_run' = dry
    /\ LET parsed == parse_old_new_file
           r == pairwise_two_tables(parsed.value[1], parsed.value[2], TRUE)
       IN IF parsed.kind = "OSError"
          THEN /\ print_error_and_exit([text |-> "OSError", detail |-> parsed.detail])
               /\ UNCHANGED <<old_new_pairs, k>>
          ELSE IF parsed.kind # "return"
          THEN /\ unexpected_exit(parsed)
               /\ UNCHANGED <<old_new_pairs, k>>
          ELSE IF r.kind = "DuplicateTagError"
          THEN /\ print_error_and_exit(
                      [text |-> "Multiple source paths with same tag found",
                       detail |-> r])
               /\ UNCHANGED <<old_new_pairs, k>>
          ELSE IF r.kind = "NoLeftValueError"
          THEN /\ print_error_and_exit(
                      [text |-> "No corresponding source path found",
                       detail |-> r])
               /\ UNCHANGED <<old_new_pairs, k>>
          ELSE IF r.kind = "MultipleRightValueError"
          THEN /\ print_error_and_exit(
                      [text |-> "Multiple corresponding destination paths found",
                       detail |-> r])
               /\ UNCHANGED <<old_new_pairs, k>>
          ELSE IF r.kind # "return"
          THEN /\ unexpected_exit(r)
               /\ UNCHANGED <<old_new_pairs, k>>
          ELSE /\ old_new_pairs' = r.value
               /\ k' = 1
               /\ IF r.value = <<>> THEN normal_exit
                  ELSE /\ pc' = "move_loop"
                       /\ UNCHANGED <<errs, exit_code>>
    /\ UNCHANGED <<session, old_txt, new_txt, fs, out, calls>>
    /\ UNCHANGED recVars

\* after iteration k of a loop over n operations
NextIteration(loop, n) ==
    /\ k' = k + 1
    /\ IF k + 1 > n THEN normal_exit
       ELSE /\ pc' = loop
            /\ UNCHANGED <<errs, exit_code>>

\* variant of the loop body in which a failed operation is only reported
MoveStep_ContinueOnError ==
    /\ pc = "move_loop"
    /\ LET pair == old_new_pairs[k]
           done == move_process(fs, pair)
       IN /\ out' = Append(out, move_message(pair))
          /\ IF dry_run
             THEN /\ NextIteration("move_loop", Len(old_new_pairs))
                  /\ UNCHANGED <<fs, calls>>
             ELSE /\ calls' = Append(calls, move_syscall(pair))
                  /\ \E oserr \in BOOLEAN :
                        IF oserr \/ ~done.ok
                        THEN /\ k' = k + 1
                             /\ errs' = Append(errs, [text |-> "OSError",
                                                      detail |-> move_syscall(pair)])
                             /\ pc' = IF k + 1 > Len(old_new_pairs)
                                      THEN "exited" ELSE "move_loop"
                             /\ exit_code' = IF k + 1 > Len(old_new_pairs)
                                             THEN EXIT_SUCCESS ELSE exit_code
                             /\ UNCHANGED fs
                        ELSE /\ fs' = done.fs
                             /\ NextIteration("move_loop", Len(old_new_pairs))
    /\ UNCHANGED <<session, old_txt, new_txt, cmd, dry_run, old_new_pairs>>
    /\ UNCHANGED recVars

\* variant of the loop body that performs the operation under --dry-run too
MoveStep_IgnoreDryRun ==
    /\ pc = "move_loop"
    /\ LET pair == old_new_pairs[k]
           done == move_process(fs, pair)
       IN /\ out' = Append(out, move_message(pair))
          /\ calls' = Append(calls, move_syscall(pair))
          /\ \E oserr \in BOOLEAN :
                IF oserr \/ ~done.ok
                THEN /\ print_error_and_exit([text |-> "OSError",
                                              detail |-> move_syscall(pair)])
                     /\ UNCHANGED <<fs, k>>
                ELSE /\ fs' = done.fs
                     /\ NextIteration("move_loop", Len(old_new_pairs))
    /\ UNCHANGED <<session, old_txt, new_txt, cmd, dry_run, old_new_pairs>>
    /\ UNCHANGED recVars

\* one iteration of  for old_path, new_path in old_new_pairs  in main_move
MoveStep ==
    /\ pc = "move_loop"
    /\ LET pair == old_new_pairs[k]
           done == move_process(fs, pair)
       IN /\ out' = Append(out, move_message(pair))
          /\ IF dry_run
             THEN /\ NextIteration("move_loop", Len(old_new_pairs))
                  /\ UNCHANGED <<fs, calls>>
             ELSE /\ calls' = Append(calls, move_syscall(pair))
                  /\ \E oserr \in BOOLEAN :
                        IF oserr \/ ~done.ok
                        THEN /\ print_error_and_exit([text |-> "OSError",
                                                      detail |-> move_syscall(pair)])
                             /\ UNCHANGED <<fs, k>>
                        ELSE /\ fs' = done.fs
                             /\ NextIteration("move_loop", Len(old_new_pairs))
    /\ UNCHANGED <<session, old_txt, new_txt, cmd, dry_run, old_new_pairs>>
    /\ UNCHANGED recVars

\* ------------------------------------------------------------------- copy
\* the (old_path, new_path) operations of the nested loops of main_copy
RECURSIVE CopyOps(_, _)
CopyOps(items, n) ==
    IF n > Len(items) THEN <<>>
    ELSE [m \in 1..Len(items[n][2]) |-> <<items[n][1], items[n][2][m]>>]
         \o CopyOps(items, n + 1)

copy_syscall(pair) == <<"copyfile", pair[1], pair[2]>>

copy_message(pair) == <<"Copied", pair[1], pair[2]>>

CopyBegin(dry) ==
    /\ pc = "shell"
    /\ cmd' = "copy"
    /\ dry_run' = dry
    /\ LET parsed == parse_old_new_file
           r == confront_two_tables(parsed.value[1], parsed.value[2])
       IN IF parsed.kind = "OSError"
          THEN /\ print_error_and_exit([text |-> "OSError", detail |-> parsed.detail])
               /\ UNCHANGED <<old_new_pairs, k>>
          ELSE IF parsed.kind # "return"
          THEN /\ unexpected_exit(parsed)
               /\ UNCHANGED <<old_new_pairs, k>>
          ELSE IF r.kind = "DuplicateTagError"
          THEN /\ print_error_and_exit(
                      [text |-> "Multiple source paths with same tag found",
                       detail |-> r])
               /\ UNCHANGED <<old_new_pairs, k>>
          ELSE IF r.kind = "NoLeftValueError"
          THEN /\ print_error_and_exit(
                      [text |-> "No corresponding source path found",
                       detail |-> r])
               /\ UNCHANGED <<old_new_pairs, k>>
          ELSE IF r.kind # "return"
          THEN /\ unexpected_exit(r)
               /\ UNCHANGED <<old_new_pairs, k>>
          ELSE /\ old_new_pairs' = r.value
               /\ k' = 1
               /\ IF CopyOps(r.value, 1) = <<>> THEN normal_exit
                  ELSE /\ pc' = "copy_loop"
                       /\ UNCHANGED <<errs, exit_code>>
    /\ UNCHANGED <<session, old_txt, new_txt, fs, out, calls>>
    /\ UNCHANGED recVars

\* one iteration of the inner loop  for new_path in new_paths  in main_copy
CopyStep ==
    /\ pc = "copy_loop"
    /\ LET ops == CopyOps(old_new_pairs, 1)
           pair == ops[k]
           done == shutil_copyfile(fs, pair[1], pair[2])
       IN /\ out' = Append(out, copy_message(pair))
          /\ IF dry_run
             THEN /\ NextIteration("copy_loop", Len(ops))
                  /\ UNCHANGED <<fs, calls>>
             ELSE /\ calls' = Append(calls, copy_syscall(pair))
                  /\ \E oserr \in BOOLEAN :
                        IF oserr \/ ~done.ok
                        THEN /\ print_error_and_exit([text |-> "OSError",
                                                      detail |-> copy_syscall(pair)])
                             /\ UNCHANGED <<fs, k>>
                        ELSE /\ fs' = done.fs
                             /\ NextIteration("copy_loop", Len(ops))
    /\ UNCHANGED <<session, old_txt, new_txt, cmd, dry_run, old_new_pairs>>
    /\ UNCHANGED recVars

\* ---------------------------------------------- move / copy on any session
RecIdle ==
    /\ left_table = <<>> /\ right_table = <<>> /\ allow_no_right = TRUE
    /\ fn = "none" /\ ret = [kind |-> "none"]

Init ==
    /\ RecIdle
    /\ \/ session = FALSE /\ old_txt = <<>> /\ new_txt = <<>>
       \/ session = TRUE /\ old_txt \in TableFiles /\ new_txt \in TableFiles
    /\ \E present \in SUBSET TablePaths :
          fs = [p \in Paths |-> IF p \in present THEN p ELSE NoFile]
    /\ pc = "shell" /\ cmd = "none" /\ dry_run = FALSE
    /\ old_new_pairs = <<>> /\ k = 1
    /\ out = <<>> /\ errs = <<>> /\ calls = <<>> /\ exit_code = -1

Next ==
    \/ \E dry \in BOOLEAN : MoveBegin(dry)
    \/ MoveStep
    \/ \E dry \in BOOLEAN : CopyBegin(dry)
    \/ CopyStep

Spec == Init /\ [][Next]_vars

\* --------------------------------------------------- start, edit, then move
\* zip(iter_random_tags(), items): tags are the distinct labels drawn
random_tagging(items, tags) == [n \in 1..Len(items) |-> <<tags[n], items[n]>>]

\* main_start (the editor session is EditDelete / EditPath below)
Start(files, tags) ==
    /\ pc = "shell" /\ cmd = "none"
    /\ cmd' = "start"
    /\ \E oserr \in BOOLEAN :
          IF oserr
          THEN /\ session' = FALSE
               /\ old_txt' = <<>>
               /\ new_txt' = <<>>
               /\ print_error_and_exit([text |-> "OSError", detail |-> <<"start">>])
          ELSE /\ session' = TRUE
               /\ old_txt' = random_tagging(files, tags)
               /\ new_txt' = old_txt'
               /\ exit_code' = EXIT_SUCCESS
               /\ UNCHANGED <<pc, errs>>
    /\ UNCHANGED <<fs, dry_run, old_new_pairs, k, out, calls>>
    /\ UNCHANGED recVars

\* in the editor opened on new.txt: the user deletes line n
EditDelete(n) ==
    /\ pc = "shell" /\ cmd = "start" /\ session
    /\ n \in 1..Len(new_txt)
    /\ new_txt' = SubSeq(new_txt, 1, n - 1) \o SubSeq(new_txt, n + 1, Len(new_txt))
    /\ UNCHANGED <<session, old_txt, fs, pc, cmd, dry_run, old_new_pairs, k,
                   out, errs, calls, exit_code>>
    /\ UNCHANGED recVars

\* in the editor opened on new.txt: the user retypes the path of line n
EditPath(n, path) ==
    /\ pc = "shell" /\ cmd = "start" /\ session
    /\ n \in 1..Len(new_txt)
    /\ new_txt[n][2] # path
    /\ new_txt' = [new_txt EXCEPT ![n] = <<new_txt[n][1], path>>]
    /\ UNCHANGED <<session, old_txt, fs, pc, cmd, dry_run, old_new_pairs, k,
                   out, errs, calls, exit_code>>
    /\ UNCHANGED recVars

InitE2E ==
    /\ RecIdle
    /\ session = FALSE /\ old_txt = <<>> /\ new_txt = <<>>
    /\ fs = [p \in Paths |-> IF p \in StartPaths THEN p ELSE NoFile]
    /\ pc = "shell" /\ cmd = "none" /\ dry_run = FALSE
    /\ old_new_pairs = <<>> /\ k = 1
    /\ out = <<>> /\ errs = <<>> /\ calls = <<>> /\ exit_code = -1

NextE2E ==
    \/ \E files \in InjectiveSeqs(StartPaths, Cardinality(StartPaths)) :
          \E tags \in InjectiveSeqs(Tags, Len(files)) : Start(files, tags)
    \/ \E n \in 1..Cardinality(StartPaths) : EditDelete(n)
    \/ \E n \in 1..Cardinality(StartPaths) : \E path \in Paths : EditPath(n, path)
    \/ \E dry \in BOOLEAN : MoveBegin(dry)
    \/ MoveStep

SpecE2E == InitE2E /\ [][NextE2E]_vars

\* ------------------------------------------------- reconciler properties
DistinctTags(table) ==
    \A m, n \in 1..Len(table) : m # n => table[m][1] # table[n][1]

TagsOf(table) == {table[n][1] : n \in 1..Len(table)}

EntriesWithTag(table, tag) == SelectSeq(table, LAMBDA e : e[1] = tag)

ValuesWithTag(table, tag) ==
    [n \in 1..Len(EntriesWithTag(table, tag)) |-> EntriesWithTag(table, tag)[n][2]]

RightCovered == TagsOf(right_table) \subseteq TagsOf(left_table)

Called == fn \in {"confront", "pairwise"}

\* C1: for a left table with pairwise-distinct tags and a right table whose
\* tags all occur in the left table, Confront returns exactly one
\* (left_value, right_values) entry per left entry, in left-table order, with
\* right_values the right-table values of that tag in right-table order; a
\* left tag without right entry is present with an empty list.
C1_ConfrontGroupsByTag ==
    (fn = "confront" /\ DistinctTags(left_table) /\ RightCovered) =>
        /\ ret.kind = "return"
        /\ Len(ret.value) = Len(left_table)
        /\ \A n \in 1..Len(left_table) :
              ret.value[n] = <<left_table[n][2],
                               ValuesWithTag(right_table, left_table[n][1])>>

C1_Witness ==
    /\ fn = "confront" /\ DistinctTags(left_table) /\ RightCovered
    /\ \E n \in 1..Len(left_table) :
          ValuesWithTag(right_table, left_table[n][1]) = <<>>
    /\ \E n \in 1..Len(left_table) :
          /\ Len(ValuesWithTag(right_table, left_table[n][1])) = 2
          /\ ValuesWithTag(right_table, left_table[n][1])[1]
                 # ValuesWithTag(right_table, left_table[n][1])[2]
    /\ ret.kind = "return"

\* C2: for a left table with distinct tags and a right table in which each
\* tag occurs in the left table and at most once, Pairwise with
\* allow_missing_right = TRUE returns one pair per left entry in left-table
\* order, the left value with its single right value or with None; with
\* allow_missing_right = FALSE it returns the pairs without None when every
\* left tag has a match and otherwise raises No-Right carrying the tag and
\* left value of a left entry that has no right entry.
C2_PairwiseOneToOne ==
    (/\ fn = "pairwise" /\ DistinctTags(left_table)
     /\ RightCovered /\ DistinctTags(right_table)) =>
        LET match(n) == ValuesWithTag(right_table, left_table[n][1])
            unmatched == {n \in 1..Len(left_table) : match(n) = <<>>}
        IN IF allow_no_right \/ unmatched = {}
           THEN /\ ret.kind = "return"
                /\ Len(ret.value) = Len(left_table)
                /\ \A n \in 1..Len(left_table) :
                      ret.value[n] = <<left_table[n][2],
                                       IF n \in unmatched THEN None
                                       ELSE match(n)[1]>>
           ELSE /\ ret.kind = "NoRightValueError"
                /\ \E n \in unmatched :
                      /\ ret.tag = left_table[n][1]
                      /\ ret.left_value = left_table[n][2]

C2_Witness ==
    /\ fn = "pairwise" /\ DistinctTags(left_table)
    /\ RightCovered /\ DistinctTags(right_table)
    /\ Len(right_table) >= 1 /\ Len(left_table) >= 2
    /\ TagsOf(right_table) # TagsOf(left_table)
    /\ ~allow_no_right
    /\ ret.kind = "NoRightValueError"

RepeatedRightTags == {t \in TagsOf(right_table) :
                         Len(EntriesWithTag(right_table, t)) >= 2}

\* C3 (as stated): any tag appearing two or more times in the right table
\* makes Pairwise raise Multiple-Right carrying the tag, its left value and
\* all of that tag's right values in right-table order, for either value of
\* allow_missing_right.
C3_AlwaysMultipleRight ==
    (fn = "pairwise" /\ RepeatedRightTags # {}) =>
        /\ ret.kind = "MultipleRightValueError"
        /\ ret.tag \in RepeatedRightTags
        /\ \E n \in 1..Len(left_table) :
              left_table[n] = <<ret.tag, ret.left_value>>
        /\ ret.right_values = ValuesWithTag(right_table, ret.tag)

\* C3 (amended): a tag appearing two or more times in the right table never
\* lets Pairwise return a result; when the left tags are distinct and every
\* right tag occurs in the left table, Pairwise raises Multiple-Right for
\* the first such tag in left-table order, with its left value and all its
\* right values in right-table order, unless allow_missing_right is FALSE
\* and an earlier left entry has no right value, in which case No-Right is
\* raised for that entry.
C3_MultipleRightUnlessEarlierError ==
    (fn = "pairwise" /\ RepeatedRightTags # {}) =>
        /\ ret.kind # "return"
        /\ (DistinctTags(left_table) /\ RightCovered) =>
              LET multi == {n \in 1..Len(left_table) :
                               left_table[n][1] \in RepeatedRightTags}
                  m == CHOOSE n \in multi : \A o \in multi : n <= o
                  holes == {n \in 1..(m - 1) :
                               ValuesWithTag(right_table, left_table[n][1]) = <<>>}
                  h == CHOOSE n \in holes : \A o \in holes : n <= o
              IN IF allow_no_right \/ holes = {}
                 THEN ret = MultipleRightValueError(
                                left_table[m][1], left_table[m][2],
                                ValuesWithTag(right_table, left_table[m][1]))
                 ELSE ret = NoRightValueError(left_table[h][1], left_table[h][2])

C3_Witness ==
    /\ fn = "pairwise" /\ ~allow_no_right
    /\ ret.kind = "MultipleRightValueError"
    /\ Len(left_table) >= 2
    /\ ret.right_values[1] # ret.right_values[2]

Orphans == {n \in 1..Len(right_table) : right_table[n][1] \notin TagsOf(left_table)}

\* C4 (as stated): any right-table tag absent from the left table raises
\* Missing-Left, carrying the tag and the orphaned right value, under both
\* Confront and Pairwise.
C4_AlwaysMissingLeft ==
    (Called /\ Orphans # {}) =>
        /\ ret.kind = "NoLeftValueError"
        /\ \E n \in Orphans : right_table[n] = <<ret.tag, ret.right_value>>

\* C4 (amended): when the left table has pairwise-distinct tags, any
\* right-table tag absent from the left table raises Missing-Left under
\* both Confront and Pairwise, carrying the tag and value of the first
\* orphaned right entry in right-table order, however often the tag recurs.
C4_MissingLeftWhenLeftDistinct ==
    (Called /\ Orphans # {} /\ DistinctTags(left_table)) =>
        LET n == CHOOSE o \in Orphans : \A q \in Orphans : o <= q
        IN ret = NoLeftValueError(right_table[n][1], right_table[n][2])

C4_Witness ==
    /\ fn = "pairwise" /\ ret.kind = "NoLeftValueError"
    /\ Len(left_table) >= 1
    /\ Len(EntriesWithTag(right_table, ret.tag)) >= 2
    /\ right_table[1][1] \in TagsOf(left_table)

\* C5: Confront and Pairwise on a left table with a repeated tag raise
\* Duplicate-Tag carrying that tag and both conflicting left values
\* (first-seen value, then the repeated one), before any right-table entry
\* is processed and whatever the right table holds, so that no
\* Missing-Left, Multiple-Right or No-Right error is reported.
C5_DuplicateTagFirst ==
    (Called /\ ~DistinctTags(left_table)) =>
        LET repeats == {n \in 1..Len(left_table) :
                           \E m \in 1..(n - 1) : left_table[m][1] = left_table[n][1]}
            j == CHOOSE n \in repeats : \A o \in repeats : n <= o
            i == CHOOSE m \in 1..(j - 1) : left_table[m][1] = left_table[j][1]
        IN /\ ret = DuplicateTagError(left_table[j][1],
                                      <<left_table[i][2], left_table[j][2]>>)
           /\ ret = confront_two_tables(left_table, <<>>)
           /\ ret = pairwise_two_tables(left_table, <<>>, allow_no_right)

C5_Witness ==
    /\ Called /\ ret.kind = "DuplicateTagError"
    /\ ret.left_values[1] # ret.left_values[2]
    /\ Orphans # {}
    /\ RepeatedRightTags # {}

\* ---------------------------------------------------- command properties
WellFormed(txt) == \A n \in 1..Len(txt) : Len(txt[n]) = 2

SessionOK == session /\ WellFormed(old_txt) /\ WellFormed(new_txt)

Running == cmd \in {"move", "copy"}

ReconcileConflict ==
    \/ ~DistinctTags(old_txt)
    \/ ~(TagsOf(new_txt) \subseteq TagsOf(old_txt))
    \/ cmd = "move" /\ ~DistinctTags(new_txt)

PlannedCalls ==
    IF cmd = "move"
    THEN [n \in 1..Len(old_new_pairs) |-> move_syscall(old_new_pairs[n])]
    ELSE [n \in 1..Len(CopyOps(old_new_pairs, 1)) |->
              copy_syscall(CopyOps(old_new_pairs, 1)[n])]

C8_ConflictAbortsBeforeExecution ==
    (Running /\ SessionOK /\ ReconcileConflict) =>
        /\ pc = "exited"
        /\ exit_code = EXIT_FAIL
        /\ calls = <<>>
        /\ out = <<>>
        /\ Len(errs) = 1
        /\ errs[1].detail.kind \in
              {"DuplicateTagError", "NoLeftValueError", "MultipleRightValueError"}

C8_Witness ==
    /\ cmd = "move" /\ ~dry_run /\ pc = "exited"
    /\ SessionOK
    /\ errs # <<>>
    /\ errs[1].detail.kind = "NoLeftValueError"
    /\ \E n \in 1..Len(old_txt) :
          /\ Len(ValuesWithTag(new_txt, old_txt[n][1])) = 1
          /\ ValuesWithTag(new_txt, old_txt[n][1])[1] # old_txt[n][2]
          /\ fs[old_txt[n][2]] # NoFile

MoveMessages ==
    [n \in 1..Len(old_txt) |->
        LET dst == ValuesWithTag(new_txt, old_txt[n][1])
        IN IF dst = <<>> THEN <<"Delete", old_txt[n][2]>>
           ELSE <<"Renamed", old_txt[n][2], dst[1]>>]

RECURSIVE CopyMessagesFrom(_)
CopyMessagesFrom(n) ==
    IF n > Len(old_txt) THEN <<>>
    ELSE LET dst == ValuesWithTag(new_txt, old_txt[n][1])
         IN [m \in 1..Len(dst) |-> <<"Copied", old_txt[n][2], dst[m]>>]
            \o CopyMessagesFrom(n + 1)

\* C9: with --dry-run, move and copy perform no file-system operation for
\* any reconciled pair and still print one message line per action, in
\* table order, for every action of the batch (every destination of a copy
\* fan-out included).
C9_DryRunOnlyPrints ==
    [][(Running' /\ dry_run') =>
          /\ fs' = fs
          /\ calls' = <<>>
          /\ (SessionOK' /\ ~ReconcileConflict' /\ pc' = "exited") =>
                /\ exit_code' = EXIT_SUCCESS
                /\ out' = IF cmd' = "move" THEN MoveMessages'
                          ELSE CopyMessagesFrom(1)']_vars

C9_Witness ==
    /\ cmd = "copy" /\ dry_run /\ pc = "exited"
    /\ Len(out) = 2
    /\ out[1][2] = out[2][2]
    /\ out[1][3] # out[2][3]
    /\ calls = <<>>

\* C10: a table line that cannot be split into two fields (in the old or the
\* new table file) is a handled failure: move and copy end before any
\* reconciliation or file-system operation with exit code 1, not 2.
C10_MalformedLineIsHandledFailure ==
    (Running /\ session /\ ~(WellFormed(old_txt) /\ WellFormed(new_txt))) =>
        /\ pc = "exited"
        /\ calls = <<>>
        /\ out = <<>>
        /\ old_new_pairs = <<>>
        /\ exit_code = EXIT_FAIL

\* the scenario of C7: of the three lines of old.txt, new.txt lacks line del,
\* has line chg with another path and has line same unchanged
EditedThreeFiles(del, chg, same) ==
    /\ {del, chg, same} = 1..3
    /\ Len(old_txt) = 3 /\ DistinctTags(old_txt)
    /\ Len(new_txt) = 2
    /\ TagsOf(new_txt) = {old_txt[chg][1], old_txt[same][1]}
    /\ \A n \in 1..2 :
          /\ new_txt[n][1] = old_txt[chg][1] => new_txt[n][2] # old_txt[chg][2]
          /\ new_txt[n][1] = old_txt[same][1] => new_txt[n] = old_txt[same]

MoveCompleted ==
    /\ cmd = "move" /\ ~dry_run /\ pc = "exited" /\ exit_code = EXIT_SUCCESS

====
